---- MODULE Spec2Model ----
(***************************************************************************)
(* The popular-post worker of socialapi (workers/popularpost): for every   *)
(* interaction on a post it increments the post's score in the sorted set  *)
(* of the post's creation day and in a lazily created seven-day sorted set.*)
(*                                                                         *)
(* Conventions of the model                                                *)
(*  - a time.Time is [day, sod, loc]: the instant is `day` days and `sod`  *)
(*    seconds after 1970-01-01T00:00:00Z, and `loc` is the offset east of  *)
(*    UTC (seconds) of the Time's location, which Hour(), Minute() and     *)
(*    Second() read the wall clock in;                                     *)
(*  - a sorted-set score is kept as an integer number of 1/Scale units, so *)
(*    that the union's weights 1, 1/2 .. 1/7 are exact.                    *)
(***************************************************************************)
EXTENDS Integers, Sequences, FiniteSets, TLC

VARIABLES
    now,      \* time.Now(): the wall clock of the worker
    flags,    \* moderation state of the channels and messages in the database
    redis,    \* the sorted-set store: key -> (member -> score)
    queue,    \* the deliveries the broker holds for the worker
    published,\* number of interactions published so far
    last,     \* record of the latest handler run since the world last changed
    prev,     \* record of the handler run right before `last`
    attempts, \* per interaction: times handed to the handler, times it failed
    probe,    \* arguments and results of the key helpers called on their own
    workers,  \* workers handling at the same time: the position of each in the handler
    applied,  \* per message: the signed counts of the daily increments that went through
    base      \* the store as it was before the workers started

vars == <<now, flags, redis, queue, published, last, prev, attempts, probe,
          workers, applied, base>>

----------------------------------------------------------------------------
(* Bounds of the model *)

\* number of messages in the database
NumMessages == 5
\* number of interactions ever published
MaxEvents == 2
\* number of moderation flags set at the same time
MaxFlags == 1
\* number of calls to the database or the store that fail
MaxFailures == 2
\* the moderators act on the channels and messages with the first ids
NumModerated == 1
\* the UTC day (days since 1970-01-01) the newest posts are created on
FirstDay == 16436

----------------------------------------------------------------------------
(* time *)

\* v, evaluated once, handed to F: a local variable or an argument of the code
With(v, F(_)) == CHOOSE r \in {F(x) : x \in {v}} : TRUE

Second == 1
Minute == 60 * Second
Hour == 60 * Minute

\* the zero time.Time, January 1, year 1, 00:00:00 UTC, as a day number
ZeroDay == -719162

Time(day, sod, loc) == [day |-> day, sod |-> sod, loc |-> loc]

ZeroTime == Time(ZeroDay, 0, 0)

IsZero(t) == t.day = ZeroDay /\ t.sod = 0

UTC(t) == [t EXCEPT !.loc = 0]

\* t.Unix()
Unix(t) == t.day * (24 * Hour) + t.sod

\* t.Add(d), d in seconds
Add(t, d) ==
    With(t, LAMBDA u :
    With(u.sod + d, LAMBDA s :
        [u EXCEPT !.day = u.day + (s \div (24 * Hour)), !.sod = s % (24 * Hour)]))

\* t.Hour(), t.Minute(), t.Second(): the wall clock in t's location
HourOf(t) == ((t.sod + t.loc) % (24 * Hour)) \div Hour
MinuteOf(t) == ((t.sod + t.loc) % Hour) \div Minute
SecondOf(t) == (t.sod + t.loc) % Minute

getStartOfDay(t) ==
    With(t, LAMBDA u :
        LET start0 == (-HourOf(u)) * Hour
            start1 == start0 - MinuteOf(u) * Minute
            start2 == start1 - SecondOf(u) * Second
        IN  Add(u, start2))

getXDaysAgo(t, days) ==
    LET daysAgo == (-Hour) * 24 * days
    IN  Add(t, daysAgo)

\* the bound of createdMoreThan7DaysAgo and of the union's loop
SevenDays == 7

\* a variant that counts whole days: int(delta.Hours())/24 > 7
createdMoreThan7DaysAgoWholeDays(createdAt) ==
    LET dd == now.day - createdAt.day
    IN  IF dd > SevenDays + 1 THEN TRUE
        ELSE IF dd < -(SevenDays + 1) THEN FALSE
        ELSE (dd * 24 * Hour + (now.sod - createdAt.sod)) \div (24 * Hour) > SevenDays

\* delta := time.Now().Sub(createdAt); delta.Hours()/24 > 7.
\* Sub saturates at +-292 years; the day difference is compared first so that
\* the seconds are computed only where they are small.
createdMoreThan7DaysAgo(createdAt) ==
    LET dd == now.day - createdAt.day
    IN  IF dd > SevenDays + 1 THEN TRUE
        ELSE IF dd < -(SevenDays + 1) THEN FALSE
        ELSE dd * 24 * Hour + (now.sod - createdAt.sod) > SevenDays * 24 * Hour

----------------------------------------------------------------------------
(* key helpers *)

PopularPostKey == "popularpost"

\* config.MustGet().Environment
Environment == "dev"

PreparePopularPostKey(group, channelName, day) ==
    Environment \o ":" \o group \o ":" \o PopularPostKey \o ":"
        \o channelName \o ":" \o ToString(day)

GetDailyKey(c, date) ==
    With(date, LAMBDA given :
    With(IF IsZero(given) THEN UTC(now) ELSE given, LAMBDA d :
    With(Unix(getStartOfDay(d)), LAMBDA unix :
        PreparePopularPostKey(c.GroupName, c.Name, unix))))

\* fmt.Sprintf("%d", s) of a string s prints %!d(string=s)
SprintfD(s) == "%!d(string=" \o s \o ")"

GetSevenDayKey(c, cm) ==
    With(GetDailyKey(c, cm.CreatedAt), LAMBDA postCreatedAtKey :
    With(getStartOfDay(cm.CreatedAt), LAMBDA date :
    With(Unix(getXDaysAgo(date, SevenDays)), LAMBDA sevenDaysAgo :
        SprintfD(postCreatedAtKey) \o "-" \o ToString(sevenDaysAgo))))

----------------------------------------------------------------------------
(* the score store (github.com/koding/redis over Redis sorted sets) *)

\* the least common multiple of 1 .. 7: every weight 1/i is a whole number
\* of 1/Scale units
Scale == 4 * 3 * 5 * 7

\* the score of the integer n
Score(n) == n * Scale

\* the float64 1/weight of a whole weight, as a fraction
OneOver(weight) == [num |-> 1, den |-> weight]

Times(score, w) == (score * w.num) \div w.den

EmptyStore == [k \in {} |-> 0]

Members(store, key) == IF key \in DOMAIN store THEN DOMAIN store[key] ELSE {}

ScoreOf(store, key, member) ==
    IF member \in Members(store, key) THEN store[key][member] ELSE 0

\* EXISTS key
Exists(store, key) == key \in DOMAIN store

\* a variant whose scores stop at 0
SortedSetIncrByFloored(store, key, incr, member) ==
    LET new == [m \in Members(store, key) \cup {member} |->
                    IF m = member
                    THEN (IF ScoreOf(store, key, m) + Score(incr) < 0 THEN 0
                          ELSE ScoreOf(store, key, m) + Score(incr))
                    ELSE ScoreOf(store, key, m)]
    IN  [k \in DOMAIN store \cup {key} |-> IF k = key THEN new ELSE store[k]]

\* ZINCRBY key incr member: an absent key or member starts at 0
SortedSetIncrBy(store, key, incr, member) ==
    LET new == [m \in Members(store, key) \cup {member} |->
                    ScoreOf(store, key, m) + (IF m = member THEN Score(incr) ELSE 0)]
    IN  [k \in DOMAIN store \cup {key} |-> IF k = key THEN new ELSE store[k]]

RECURSIVE WeightedSum(_, _, _, _, _)
WeightedSum(store, keys, weights, member, n) ==
    IF n = 0 THEN 0
    ELSE WeightedSum(store, keys, weights, member, n - 1)
            + Times(ScoreOf(store, keys[n], member), weights[n])

\* ZUNIONSTORE dest N keys WEIGHTS weights AGGREGATE SUM: dest is overwritten
\* by the union, and deleted when the union is empty. (A message is a member
\* of one daily key only, so the other aggregates give the same scores here.)
SortedSetsUnion(store, dest, keys, weights, aggregate) ==
    LET members == UNION {Members(store, keys[i]) : i \in DOMAIN keys}
        result == [m \in members |->
                    WeightedSum(store, keys, weights, m, Len(keys))]
    IN  IF members = {}
        THEN [k \in DOMAIN store \ {dest} |-> store[k]]
        ELSE [k \in DOMAIN store \cup {dest} |-> IF k = dest THEN result ELSE store[k]]

----------------------------------------------------------------------------
(* the database of channels and messages (socialapi/models) *)

Channel_PRIVACY_PUBLIC == "public"
Channel_PRIVACY_PRIVATE == "private"
ChannelMessage_TYPE_POST == "post"
ChannelMessage_TYPE_REPLY == "reply"
Troll == "troll"

MessageIds == 1..NumMessages

\* the rows of the message table: every fifth message starts the next channel,
\* every fourth is a reply, and the creation times cycle over three instants
InitialChannelIdOf(m) == 1 + (m \div 5)

TypeConstantOf(m) ==
    IF m % 4 = 0 THEN ChannelMessage_TYPE_REPLY ELSE ChannelMessage_TYPE_POST

CreatedAtOf(m) ==
    CASE m % 3 = 0 -> Time(FirstDay - 2, 12 * Hour, 0)
      [] m % 3 = 1 -> Time(FirstDay, 1 * Hour, 0)
      [] OTHER     -> Time(FirstDay, 23 * Hour + 59 * Minute + 59 * Second, 0)

ChannelIds == {InitialChannelIdOf(m) : m \in MessageIds}

\* the moderation flags that may be set
FlagNames ==
    ({"channelTroll", "channelPrivate"} \X (ChannelIds \cap 1..NumModerated))
        \cup ({"messageTroll"} \X (MessageIds \cap 1..NumModerated))

MessageRow(id) ==
    [Id |-> id,
     InitialChannelId |-> InitialChannelIdOf(id),
     CreatedAt |-> CreatedAtOf(id),
     TypeConstant |-> TypeConstantOf(id),
     MetaBits |-> IF <<"messageTroll", id>> \in flags THEN {Troll} ELSE {}]

ChannelRow(id) ==
    [Id |-> id,
     GroupName |-> "koding",
     Name |-> "topic" \o ToString(id),
     PrivacyConstant |-> IF <<"channelPrivate", id>> \in flags
                         THEN Channel_PRIVACY_PRIVATE ELSE Channel_PRIVACY_PUBLIC,
     MetaBits |-> IF <<"channelTroll", id>> \in flags THEN {Troll} ELSE {}]

\* models.ChannelMessageById: the row, or an error (not found, database down)
ChannelMessageById(id, fail) ==
    IF fail = "message" \/ id \notin MessageIds
    THEN [err |-> TRUE]
    ELSE [err |-> FALSE, cm |-> MessageRow(id)]

\* models.ChannelById
ChannelById(id, fail) ==
    IF fail = "channel" \/ id \notin ChannelIds
    THEN [err |-> TRUE]
    ELSE [err |-> FALSE, c |-> ChannelRow(id)]

\* MetaBits.Is
Is(metaBits, bit) == bit \in metaBits

----------------------------------------------------------------------------
(* eligibility *)

notEligibleForPopularPostAnyPrivacy(c, cm) ==
    IF Is(c.MetaBits, Troll) THEN TRUE
    ELSE IF Is(cm.MetaBits, Troll) THEN TRUE
    ELSE IF cm.TypeConstant # ChannelMessage_TYPE_POST THEN TRUE
    ELSE FALSE

\* a variant that does not look at the message's flag
notEligibleForPopularPostIgnoresMessageFlag(c, cm) ==
    IF Is(c.MetaBits, Troll) THEN TRUE
    ELSE IF c.PrivacyConstant # Channel_PRIVACY_PUBLIC THEN TRUE
    ELSE IF cm.TypeConstant # ChannelMessage_TYPE_POST THEN TRUE
    ELSE FALSE

notEligibleForPopularPost(c, cm) ==
    IF Is(c.MetaBits, Troll) THEN TRUE
    ELSE IF c.PrivacyConstant # Channel_PRIVACY_PUBLIC THEN TRUE
    ELSE IF Is(cm.MetaBits, Troll) THEN TRUE
    ELSE IF cm.TypeConstant # ChannelMessage_TYPE_POST THEN TRUE
    ELSE FALSE

----------------------------------------------------------------------------
(* the handler *)

\* the points where a call to the database or to the store can fail
FailPoints == {"none", "message", "channel", "daily", "union", "rolling"}

\* what a step of the handler leaves: the error it returns, the store, and
\* the store calls issued so far
Outcome(err, store, calls) == [err |-> err, redis |-> store, calls |-> calls]

ZIncrByCall(key, incr, member) ==
    [op |-> "ZINCRBY", key |-> key, incr |-> incr, member |-> member]

ExistsCall(key) == [op |-> "EXISTS", key |-> key]

ZUnionStoreCall(dest, keys, weights, aggregate) ==
    [op |-> "ZUNIONSTORE", key |-> dest, keys |-> keys, weights |-> weights,
     aggregate |-> aggregate]

\* f.redis.SortedSetIncrBy(key, incr, member) and its error; a failed call
\* leaves the store as it was
RedisSortedSetIncrBy(st, key, incr, member, fails) ==
    IF fails
    THEN Outcome(TRUE, st.redis, Append(st.calls, ZIncrByCall(key, incr, member)))
    ELSE Outcome(FALSE, SortedSetIncrBy(st.redis, key, incr, member),
                 Append(st.calls, ZIncrByCall(key, incr, member)))

\* f.redis.Exists(key): the call is logged, its answer is Exists(st.redis, key)
RedisExists(st, key) == Outcome(FALSE, st.redis, Append(st.calls, ExistsCall(key)))

\* f.redis.SortedSetsUnion(dest, keys, weights, aggregate) and its error
RedisSortedSetsUnion(st, dest, keys, weights, aggregate, fails) ==
    IF fails
    THEN Outcome(TRUE, st.redis, Append(st.calls, ZUnionStoreCall(dest, keys, weights, aggregate)))
    ELSE Outcome(FALSE, SortedSetsUnion(st.redis, dest, keys, weights, aggregate),
                 Append(st.calls, ZUnionStoreCall(dest, keys, weights, aggregate)))

saveToDailyBucket(st, c, cm, i, incrementCount, fail) ==
    With(GetDailyKey(c, cm.CreatedAt), LAMBDA key :
        RedisSortedSetIncrBy(st, key, incrementCount, cm.Id, fail = "daily"))

\* the daily keys of the days from, from - 1 .. from - 7
sevenDayKeys(c, from, offsets) ==
    [n \in 1..(offsets + 1) |-> GetDailyKey(c, getXDaysAgo(getStartOfDay(from), n - 1))]

\* a variant whose weight for offset i is 1/(i+1)
createSevenDayCombinedBucketOffByOne(st, c, cm, key, from, fail) ==
    With(sevenDayKeys(c, from, SevenDays), LAMBDA keys :
    With([n \in 1..(SevenDays + 1) |-> OneOver(n)], LAMBDA weights :
        RedisSortedSetsUnion(st, key, keys, weights, "SUM", fail = "union")))

\* a variant whose loop stops before offset 7
createSevenDayCombinedBucketSevenKeys(st, c, cm, key, from, fail) ==
    With(sevenDayKeys(c, from, SevenDays - 1), LAMBDA keys :
    With([n \in 1..SevenDays |->
            LET weight == IF n - 1 = 0 THEN 1 ELSE n - 1
            IN  OneOver(weight)], LAMBDA weights :
        RedisSortedSetsUnion(st, key, keys, weights, "SUM", fail = "union")))

\* a variant that stores the union in the daily key of two days before
createSevenDayCombinedBucketIntoSource(st, c, cm, key, from, fail) ==
    With(sevenDayKeys(c, from, SevenDays), LAMBDA keys :
    With([n \in 1..(SevenDays + 1) |->
            LET weight == IF n - 1 = 0 THEN 1 ELSE n - 1
            IN  OneOver(weight)], LAMBDA weights :
        RedisSortedSetsUnion(st, keys[3], keys, weights, "SUM", fail = "union")))

createSevenDayCombinedBucket(st, c, cm, key, from, fail) ==
    With(sevenDayKeys(c, from, SevenDays), LAMBDA keys :
    With([n \in 1..(SevenDays + 1) |->
            LET weight == IF n - 1 = 0 THEN 1 ELSE n - 1
            IN  OneOver(weight)], LAMBDA weights :
        RedisSortedSetsUnion(st, key, keys, weights, "SUM", fail = "union")))

\* a variant that increments only a key that existed already
saveToSevenDayBucketCreateOrIncrement(st, c, cm, i, incrementCount, fail) ==
    With(GetSevenDayKey(c, cm), LAMBDA key :
    With(getStartOfDay(cm.CreatedAt), LAMBDA from :
    With(Exists(st.redis, key), LAMBDA exists :
        IF ~exists
        THEN createSevenDayCombinedBucket(RedisExists(st, key), c, cm, key, from, fail)
        ELSE RedisSortedSetIncrBy(RedisExists(st, key), key, incrementCount, cm.Id,
                                  fail = "rolling"))))

\* a variant that takes the union whether the key exists or not
saveToSevenDayBucketAlwaysUnion(st, c, cm, i, incrementCount, fail) ==
    With(GetSevenDayKey(c, cm), LAMBDA key :
    With(getStartOfDay(cm.CreatedAt), LAMBDA from :
    With(createSevenDayCombinedBucket(RedisExists(st, key), c, cm, key, from, fail),
         LAMBDA created :
        IF created.err THEN created
        ELSE RedisSortedSetIncrBy(created, key, incrementCount, cm.Id, fail = "rolling"))))

saveToSevenDayBucket(st, c, cm, i, incrementCount, fail) ==
    With(GetSevenDayKey(c, cm), LAMBDA key :
    With(getStartOfDay(cm.CreatedAt), LAMBDA from :
    With(Exists(st.redis, key), LAMBDA exists :
    With(IF ~exists
         THEN createSevenDayCombinedBucket(RedisExists(st, key), c, cm, key, from, fail)
         ELSE RedisExists(st, key), LAMBDA created :
        IF created.err THEN created
        ELSE RedisSortedSetIncrBy(created, key, incrementCount, cm.Id, fail = "rolling")))))

\* a variant that returns nil when a lookup fails
handleInteractionSwallowsLookupError(incrementCount, i, fail) ==
    With(ChannelMessageById(i.MessageId, fail), LAMBDA m :
        IF m.err THEN Outcome(FALSE, redis, <<>>)
        ELSE With(ChannelById(m.cm.InitialChannelId, fail), LAMBDA ch :
            IF ch.err THEN Outcome(FALSE, redis, <<>>)
            ELSE IF notEligibleForPopularPost(ch.c, m.cm) THEN Outcome(FALSE, redis, <<>>)
            ELSE IF createdMoreThan7DaysAgo(m.cm.CreatedAt) THEN Outcome(FALSE, redis, <<>>)
            ELSE With(saveToDailyBucket(Outcome(FALSE, redis, <<>>), ch.c, m.cm, i,
                                        incrementCount, fail), LAMBDA daily :
                IF daily.err THEN daily
                ELSE saveToSevenDayBucket(daily, ch.c, m.cm, i, incrementCount, fail))))

\* a variant that updates the rolling bucket before the daily bucket
handleInteractionRollingFirst(incrementCount, i, fail) ==
    With(ChannelMessageById(i.MessageId, fail), LAMBDA m :
        IF m.err THEN Outcome(TRUE, redis, <<>>)
        ELSE With(ChannelById(m.cm.InitialChannelId, fail), LAMBDA ch :
            IF ch.err THEN Outcome(TRUE, redis, <<>>)
            ELSE IF notEligibleForPopularPost(ch.c, m.cm) THEN Outcome(FALSE, redis, <<>>)
            ELSE IF createdMoreThan7DaysAgo(m.cm.CreatedAt) THEN Outcome(FALSE, redis, <<>>)
            ELSE With(saveToSevenDayBucket(Outcome(FALSE, redis, <<>>), ch.c, m.cm, i,
                                           incrementCount, fail), LAMBDA rolling :
                IF rolling.err THEN rolling
                ELSE saveToDailyBucket(rolling, ch.c, m.cm, i, incrementCount, fail))))

\* a variant that takes the daily increment back when the rolling step fails
handleInteractionRollsBack(incrementCount, i, fail) ==
    With(ChannelMessageById(i.MessageId, fail), LAMBDA m :
        IF m.err THEN Outcome(TRUE, redis, <<>>)
        ELSE With(ChannelById(m.cm.InitialChannelId, fail), LAMBDA ch :
            IF ch.err THEN Outcome(TRUE, redis, <<>>)
            ELSE IF notEligibleForPopularPost(ch.c, m.cm) THEN Outcome(FALSE, redis, <<>>)
            ELSE IF createdMoreThan7DaysAgo(m.cm.CreatedAt) THEN Outcome(FALSE, redis, <<>>)
            ELSE With(saveToDailyBucket(Outcome(FALSE, redis, <<>>), ch.c, m.cm, i,
                                        incrementCount, fail), LAMBDA daily :
                IF daily.err THEN daily
                ELSE With(saveToSevenDayBucket(daily, ch.c, m.cm, i, incrementCount, fail),
                          LAMBDA rolling :
                    IF rolling.err THEN Outcome(TRUE, redis, rolling.calls) ELSE rolling))))

\* m and ch are the results of the two lookups, daily that of
\* saveToDailyBucket; the store calls issued are logged from <<>> on
handleInteraction(incrementCount, i, fail) ==
    With(ChannelMessageById(i.MessageId, fail), LAMBDA m :
        IF m.err THEN Outcome(TRUE, redis, <<>>)
        ELSE With(ChannelById(m.cm.InitialChannelId, fail), LAMBDA ch :
            IF ch.err THEN Outcome(TRUE, redis, <<>>)
            ELSE IF notEligibleForPopularPost(ch.c, m.cm) THEN Outcome(FALSE, redis, <<>>)
            ELSE IF createdMoreThan7DaysAgo(m.cm.CreatedAt) THEN Outcome(FALSE, redis, <<>>)
            ELSE With(saveToDailyBucket(Outcome(FALSE, redis, <<>>), ch.c, m.cm, i,
                                        incrementCount, fail), LAMBDA daily :
                IF daily.err THEN daily
                ELSE saveToSevenDayBucket(daily, ch.c, m.cm, i, incrementCount, fail))))

InteractionSaved(i, fail) == handleInteraction(1, i, fail)

\* a variant that adds instead of subtracting
InteractionDeletedAdds(i, fail) == handleInteraction(1, i, fail)

InteractionDeleted(i, fail) == handleInteraction(-1, i, fail)

----------------------------------------------------------------------------
(* the delivery boundary *)

AckCall(multiple) == [op |-> "Ack", multiple |-> multiple]

NackCall(multiple, requeue) == [op |-> "Nack", multiple |-> multiple, requeue |-> requeue]

\* a variant with the test of Redelivered inverted
DefaultErrHandlerInverted(delivery) ==
    IF ~delivery.Redelivered
    THEN [calls |-> <<AckCall(FALSE)>>, ret |-> TRUE]
    ELSE [calls |-> <<NackCall(FALSE, TRUE)>>, ret |-> FALSE]

\* a variant that requeues whatever the delivery says
DefaultErrHandlerAlwaysRequeue(delivery) ==
    [calls |-> <<NackCall(FALSE, TRUE)>>, ret |-> FALSE]

\* the calls made on the delivery, and the value returned
DefaultErrHandler(delivery) ==
    IF delivery.Redelivered
    THEN [calls |-> <<AckCall(FALSE)>>, ret |-> TRUE]
    ELSE [calls |-> <<NackCall(FALSE, TRUE)>>, ret |-> FALSE]

\* the broker: an acknowledged delivery is gone, a delivery rejected with
\* requeue comes back marked as redelivered
Broker(q, delivery, calls) ==
    IF calls = <<>> THEN q
    ELSE IF calls[1].op = "Nack" /\ calls[1].requeue
         THEN (q \ {delivery}) \cup {[delivery EXCEPT !.Redelivered = TRUE]}
         ELSE q \ {delivery}

NoRun == [ran |-> FALSE]

\* the calls that have failed so far
FailedUpTo[k \in 0..MaxEvents] ==
    IF k = 0 THEN 0 ELSE FailedUpTo[k - 1] + attempts[k].failed

Failures == FailedUpTo[MaxEvents]

\* the worker is handed a delivery the broker holds (q), runs its handler, and
\* acknowledges the delivery on success or hands it to DefaultErrHandler
\* with the error
Consume(q, delivery, fail) ==
    \E res \in {IF delivery.kind = "saved"
                THEN InteractionSaved(delivery.i, fail)
                ELSE InteractionDeleted(delivery.i, fail)} :
    \E dcalls \in {IF res.err THEN DefaultErrHandler(delivery).calls ELSE <<AckCall(FALSE)>>} :
        /\ delivery \in q
        /\ fail = "none" \/ Failures < MaxFailures
        /\ redis' = res.redis
        /\ queue' = Broker(q, delivery, dcalls)
        /\ last' = [ran |-> TRUE, delivery |-> delivery, err |-> res.err,
                    lookupFailed |-> fail \in {"message", "channel"},
                    failed |-> IF res.err THEN fail ELSE "none",
                    calls |-> res.calls, dcalls |-> dcalls, pre |-> redis]
        /\ prev' = last
        /\ attempts' = [attempts EXCEPT ![delivery.i.Id] =
                            [n |-> @.n + 1, failed |-> @.failed + (IF res.err THEN 1 ELSE 0)]]
        /\ UNCHANGED <<now, flags, probe, workers, applied, base>>

----------------------------------------------------------------------------
(* the world around the worker *)

\* the instants the clock visits: the creation time of the newest message,
\* and the seventh day after the first message's creation, to the second and
\* one second on
ClockPoints ==
    {CreatedAtOf(2)}
        \cup {Add(CreatedAtOf(1), d) : d \in {SevenDays * 24 * Hour, SevenDays * 24 * Hour + Second}}

\* time passes
Tick ==
    /\ \E t \in ClockPoints :
        /\ Unix(now) < Unix(t)
        /\ now' = t
    /\ last' = NoRun /\ prev' = NoRun
    /\ UNCHANGED <<flags, redis, queue, published, attempts, probe, workers, applied, base>>

\* a moderator marks or unmarks a channel or a message
Moderate ==
    /\ \E f \in FlagNames :
        /\ flags' = IF f \in flags THEN flags \ {f} ELSE flags \cup {f}
        /\ Cardinality(flags') <= MaxFlags
    /\ last' = NoRun /\ prev' = NoRun
    /\ UNCHANGED <<now, redis, queue, published, attempts, probe, workers, applied, base>>

\* a user likes a message, or takes the like back: the interaction is
\* published and the broker hands it to the worker for the first time
Deliver ==
    /\ published < MaxEvents
    /\ published' = published + 1
    /\ \E m \in MessageIds, kind \in {"saved", "deleted"}, fail \in FailPoints :
        LET delivery == [i |-> [Id |-> published + 1, MessageId |-> m],
                         kind |-> kind, Redelivered |-> FALSE]
        IN  Consume(queue \cup {delivery}, delivery, fail)

\* the broker hands a requeued delivery to the worker again
Redeliver ==
    /\ \E delivery \in queue, fail \in FailPoints : Consume(queue, delivery, fail)
    /\ UNCHANGED published

NoProbe == [called |-> "none"]

\* the workers that handle interactions at the same time
Workers == {"w1", "w2"}

Idle == [pc |-> "idle"]

Init ==
    /\ now = CreatedAtOf(2)
    /\ flags = {}
    /\ redis = EmptyStore
    /\ queue = {}
    /\ published = 0
    /\ last = NoRun
    /\ prev = NoRun
    /\ attempts = [e \in 1..MaxEvents |-> [n |-> 0, failed |-> 0]]
    /\ probe = NoProbe
    /\ workers = [w \in Workers |-> Idle]
    /\ applied = [m \in MessageIds |-> 0]
    /\ base = EmptyStore

Next == Tick \/ Moderate \/ Deliver \/ Redeliver

Spec == Init /\ [][Next]_vars

\* the worker and its broker alone, at one instant and one moderation state;
\* the broker hands every delivery it holds to the worker in the end
RetryNext == Deliver \/ Redeliver

RetrySpec == Init /\ [][RetryNext]_vars /\ WF_vars(Redeliver)

----------------------------------------------------------------------------
(* What the claims speak of, read off the state *)

\* the message, channel and signed count of the latest handler run
LastMessage == last.delivery.i.MessageId
LastChannel == InitialChannelIdOf(LastMessage)
LastDelta == IF last.delivery.kind = "saved" THEN 1 ELSE -1

\* the message or its channel is barred from ranking, by the database's state
Barred(m) ==
    \/ <<"channelTroll", InitialChannelIdOf(m)>> \in flags
    \/ <<"channelPrivate", InitialChannelIdOf(m)>> \in flags
    \/ <<"messageTroll", m>> \in flags
    \/ TypeConstantOf(m) # "post"

\* seconds since the message was created
AgeOf(m) == Unix(now) - Unix(CreatedAtOf(m))

\* the key scheme as documented for a channel and a UTC day number
DailyKeyAt(c, unix) ==
    "dev:koding:popularpost:topic" \o ToString(c) \o ":" \o ToString(unix)

DailyKeyOfDay(c, day) == DailyKeyAt(c, day * 86400)

\* the keys of a message
DailyKeyOf(m) == DailyKeyOfDay(InitialChannelIdOf(m), CreatedAtOf(m).day)
RollingKeyOf(m) == GetSevenDayKey(ChannelRow(InitialChannelIdOf(m)), MessageRow(m))

\* weight(i) times the member's score in the daily bucket i days before day,
\* summed over i = 0 .. 7, with weight(0) = 1 and weight(i) = 1/i
DailySum(store, c, day, member) ==
    LET part[i \in 0..7] ==
            (IF i = 0 THEN 0 ELSE part[i - 1])
                + ScoreOf(store, DailyKeyOfDay(c, day - i), member) \div (IF i = 0 THEN 1 ELSE i)
    IN  part[7]

\* the latest run got past the lookups, the eligibility filter and the age check
LastScored == last.ran /\ ~last.lookupFailed /\ ~Barred(LastMessage) /\ AgeOf(LastMessage) <= 604800

\* the latest run issued the union, and the union succeeded
LastMaterialized ==
    /\ last.ran
    /\ \E n \in DOMAIN last.calls : last.calls[n].op = "ZUNIONSTORE"
    /\ last.failed # "union"

----------------------------------------------------------------------------
(* C1: an interaction on a message that is barred from ranking (channel
   flagged or not public, message flagged or not a post) issues no store
   call, changes no bucket and returns nil. *)
C1_IneligibleIsNoOp ==
    (last.ran /\ ~last.lookupFailed /\ Barred(LastMessage))
        => (last.calls = <<>> /\ redis = last.pre /\ ~last.err)

\* a private channel's interaction was handled when buckets existed already
C1_Witness ==
    /\ last.ran /\ ~last.lookupFailed
    /\ <<"channelPrivate", LastChannel>> \in flags
    /\ redis # EmptyStore

(* C2: an interaction on an eligible message created more than 7x24 hours
   ago issues no store call, changes no bucket and returns nil. *)
C2_StaleIsNoOp ==
    (last.ran /\ ~last.lookupFailed /\ ~Barred(LastMessage) /\ AgeOf(LastMessage) > 604800)
        => (last.calls = <<>> /\ redis = last.pre /\ ~last.err)

\* the message was seven days and one second old
C2_Witness ==
    /\ last.ran /\ ~last.lookupFailed /\ ~Barred(LastMessage)
    /\ AgeOf(LastMessage) = 604801
    /\ redis # EmptyStore

(* C3, as claimed: whenever a rolling key exists, each member's score in it
   is the weighted sum of the member's scores in the eight daily buckets. *)
C3_RollingIsWeightedSum ==
    \A m \in MessageIds :
        Exists(redis, RollingKeyOf(m)) =>
            \A member \in Members(redis, RollingKeyOf(m)) :
                ScoreOf(redis, RollingKeyOf(m), member)
                    = DailySum(redis, InitialChannelIdOf(m), CreatedAtOf(m).day, member)

(* C3, amended: right after the run that materializes a rolling key, each
   member's score in it is that weighted sum, plus the run's signed count for
   the triggering message once the rolling increment is applied. *)
C3_RollingAtMaterialization ==
    LastMaterialized =>
        \A member \in Members(redis, RollingKeyOf(LastMessage)) :
            ScoreOf(redis, RollingKeyOf(LastMessage), member)
                = DailySum(redis, LastChannel, CreatedAtOf(LastMessage).day, member)
                    + (IF member = LastMessage /\ ~last.err THEN LastDelta * 420 ELSE 0)

\* the union folded in a message of an earlier day, with a weight below 1
C3_Witness ==
    /\ LastMaterialized /\ ~last.err
    /\ \E member \in Members(redis, RollingKeyOf(LastMessage)) :
        /\ CreatedAtOf(member).day < CreatedAtOf(LastMessage).day
        /\ ScoreOf(redis, RollingKeyOf(LastMessage), member) = 210

(* C4: a failed run of a delivery not marked redelivered is rejected with
   requeue and never acknowledged; a failed run of a redelivered delivery is
   acknowledged and not requeued. *)
C4_ErrHandlerPolicy ==
    (last.ran /\ last.err) =>
        IF last.delivery.Redelivered
        THEN /\ last.dcalls = <<[op |-> "Ack", multiple |-> FALSE]>>
             /\ \A d \in queue : d.i # last.delivery.i
        ELSE /\ last.dcalls = <<[op |-> "Nack", multiple |-> FALSE, requeue |-> TRUE]>>
             /\ [last.delivery EXCEPT !.Redelivered = TRUE] \in queue

\* a redelivered delivery failed again
C4_Witness == last.ran /\ last.err /\ last.delivery.Redelivered

(* C6: a saved interaction on an eligible, fresh post whose rolling key does
   not exist yet adds 1 to the post's daily score, creates the rolling key by
   one weighted union taken after that increment, and leaves the post's
   rolling score at the union's result plus 1. *)
C6_FirstSaved ==
    (/\ LastScored /\ ~last.err /\ last.delivery.kind = "saved"
     /\ ~Exists(last.pre, RollingKeyOf(LastMessage)))
        => /\ ScoreOf(redis, DailyKeyOf(LastMessage), LastMessage)
                = ScoreOf(last.pre, DailyKeyOf(LastMessage), LastMessage) + 420
           /\ Exists(redis, RollingKeyOf(LastMessage))
           /\ [n \in DOMAIN last.calls |-> last.calls[n].op]
                = <<"ZINCRBY", "EXISTS", "ZUNIONSTORE", "ZINCRBY">>
           /\ ScoreOf(redis, RollingKeyOf(LastMessage), LastMessage)
                = DailySum(redis, LastChannel, CreatedAtOf(LastMessage).day, LastMessage) + 420

\* the first saved interaction on a post that already had a daily score
C6_Witness ==
    /\ LastScored /\ ~last.err /\ last.delivery.kind = "saved"
    /\ ~Exists(last.pre, RollingKeyOf(LastMessage))
    /\ ScoreOf(last.pre, DailyKeyOf(LastMessage), LastMessage) = 420
    /\ ScoreOf(redis, RollingKeyOf(LastMessage), LastMessage) = 3 * 420

\* the run before the latest one handled a saved interaction on the same
\* message with success, and the latest one a deleted interaction
SavedThenDeleted ==
    /\ LastScored /\ ~last.err /\ last.delivery.kind = "deleted"
    /\ prev.ran /\ ~prev.err /\ prev.delivery.kind = "saved"
    /\ prev.delivery.i.MessageId = LastMessage

(* C7: a saved interaction followed at once by a deleted one on the same
   eligible, fresh post, both handled with success, returns the post's daily
   score to its value before the saved one and leaves its rolling score 1
   below its value right after the saved one. *)
C7_SavedThenDeleted ==
    SavedThenDeleted
        => /\ ScoreOf(redis, DailyKeyOf(LastMessage), LastMessage)
                = ScoreOf(prev.pre, DailyKeyOf(LastMessage), LastMessage)
           /\ ScoreOf(redis, RollingKeyOf(LastMessage), LastMessage)
                = ScoreOf(last.pre, RollingKeyOf(LastMessage), LastMessage) - 420

\* a fresh post: saved, then deleted; its daily score is 0 again and its
\* rolling score went from 2 to 1
C7_Witness ==
    /\ SavedThenDeleted
    /\ ~Exists(prev.pre, DailyKeyOf(LastMessage))
    /\ LastMessage \in Members(redis, DailyKeyOf(LastMessage))
    /\ ScoreOf(redis, DailyKeyOf(LastMessage), LastMessage) = 0
    /\ ScoreOf(last.pre, RollingKeyOf(LastMessage), LastMessage) = 2 * 420
    /\ ScoreOf(redis, RollingKeyOf(LastMessage), LastMessage) = 420

\* the unions the latest run issued
LastUnions == {n \in DOMAIN last.calls : last.calls[n].op = "ZUNIONSTORE"}

\* the fraction a is smaller than the fraction b
Less(a, b) == a.num * b.den < b.num * a.den

\* the union is one call into the message's rolling key, aggregate SUM, over
\* the eight daily keys of the message's day minus 0 .. 7 days, weighted 1
\* for offset 0 and 1/i for offset i
UnionAsDocumented(u) ==
    /\ Cardinality(LastUnions) = 1
    /\ u.key = RollingKeyOf(LastMessage)
    /\ u.aggregate = "SUM"
    /\ Len(u.keys) = 8 /\ Len(u.weights) = 8
    /\ \A i \in 0..7 :
        /\ u.keys[i + 1] = DailyKeyOfDay(LastChannel, CreatedAtOf(LastMessage).day - i)
        /\ u.weights[i + 1] = [num |-> 1, den |-> IF i = 0 THEN 1 ELSE i]

(* C8, as claimed: the union is as documented, and each day further in the
   past carries a smaller weight than the day after it. *)
C8_UnionWeightsDiminish ==
    last.ran =>
        \A n \in LastUnions :
            /\ UnionAsDocumented(last.calls[n])
            /\ \A i \in 0..6 : Less(last.calls[n].weights[i + 2], last.calls[n].weights[i + 1])

(* C8, amended: the union is as documented; the day before the message's day
   carries the same full weight 1 as the message's own day, and the weights
   diminish from the day before on, day-7 carrying the least. *)
C8_UnionWeights ==
    last.ran =>
        \A n \in LastUnions :
            /\ UnionAsDocumented(last.calls[n])
            /\ last.calls[n].weights[2] = last.calls[n].weights[1]
            /\ \A i \in 1..6 : Less(last.calls[n].weights[i + 2], last.calls[n].weights[i + 1])

\* a union was issued, for a message of the other channel
C8_Witness == LastMaterialized /\ LastChannel = 2

(* C9: when the message lookup or the channel lookup fails, the handler
   returns the error, issues no store call and changes no bucket. *)
C9_LookupFailure ==
    (last.ran /\ last.lookupFailed)
        => (last.err /\ last.calls = <<>> /\ redis = last.pre)

\* the channel lookup failed for an interaction that would have been scored
C9_Witness ==
    /\ last.ran /\ last.lookupFailed /\ last.failed = "channel"
    /\ ~Barred(LastMessage) /\ AgeOf(LastMessage) <= 604800
    /\ redis # EmptyStore

\* the broker holds a delivery of interaction e
Queued(e) == \E d \in queue : d.i.Id = e

\* interaction e was handed to the handler and failed every time
AllFailed(e) == attempts[e].n >= 1 /\ attempts[e].failed = attempts[e].n

(* C5: with a broker that marks a requeued delivery as redelivered, no
   interaction is requeued more than once; one whose handling always fails is
   handed to the handler twice, then acknowledged; it never comes back, and
   every delivery the broker holds leaves the queue in the end. *)
C5_SingleRetry ==
    /\ [](\A e \in 1..MaxEvents :
            /\ attempts[e].n <= 2
            /\ AllFailed(e) =>
                /\ attempts[e].n = 1 => \E d \in queue : d.i.Id = e /\ d.Redelivered
                /\ attempts[e].n = 2 => ~Queued(e))
    /\ [][\A e \in 1..MaxEvents :
            (attempts[e].n >= 1 /\ ~Queued(e)) => (~Queued(e))']_vars
    /\ \A e \in 1..MaxEvents : Queued(e) ~> ~Queued(e)

\* an interaction failed twice and is gone
C5_Witness ==
    \E e \in 1..MaxEvents :
        attempts[e] = [n |-> 2, failed |-> 2] /\ ~Queued(e) /\ last.dcalls[1].op = "Ack"

\* the operations of the store calls the latest run issued, in order
LastOps == [n \in DOMAIN last.calls |-> last.calls[n].op]

(* C13: handled one at a time, an interaction issues the union only when its
   rolling key does not exist, and then once; a union that succeeds leaves
   the key existing, a key that exists stays, and an interaction that finds
   its key existing issues the increment alone: each rolling key is
   materialized at most once, by the first interaction to reach it. *)
C13_MaterializedOnce ==
    /\ [](last.ran =>
            /\ Cardinality(LastUnions) <= 1
            /\ LastUnions # {} => ~Exists(last.pre, RollingKeyOf(LastMessage))
            /\ LastMaterialized => Exists(redis, RollingKeyOf(LastMessage))
            /\ (LastScored /\ last.failed # "daily") =>
                    IF Exists(last.pre, RollingKeyOf(LastMessage))
                    THEN LastOps = <<"ZINCRBY", "EXISTS", "ZINCRBY">>
                    ELSE LastOps = IF last.failed = "union"
                                   THEN <<"ZINCRBY", "EXISTS", "ZUNIONSTORE">>
                                   ELSE <<"ZINCRBY", "EXISTS", "ZUNIONSTORE", "ZINCRBY">>)
    /\ [][\A k \in DOMAIN redis : Exists(redis', k)]_vars

\* a second message of the same day and channel found the key in place
C13_Witness ==
    /\ LastScored /\ ~last.err
    /\ Exists(last.pre, RollingKeyOf(LastMessage))
    /\ LastMessage \notin Members(last.pre, RollingKeyOf(LastMessage))
    /\ LastMessage \in Members(redis, RollingKeyOf(LastMessage))

(* C14: the first store call of a run is the increment of the message's
   daily key and every later call is on its rolling key; when the daily
   increment fails the run returns the error after that one call, with every
   bucket as it was. *)
C14_DailyFirst ==
    last.ran =>
        /\ last.calls # <<>> =>
            /\ last.calls[1].op = "ZINCRBY"
            /\ last.calls[1].key = DailyKeyOf(LastMessage)
            /\ \A n \in 2..Len(last.calls) :
                /\ last.calls[n].key = RollingKeyOf(LastMessage)
                /\ last.calls[n].key # DailyKeyOf(LastMessage)
        /\ last.failed = "daily" =>
            /\ last.err /\ Len(last.calls) = 1 /\ redis = last.pre

\* the daily increment failed when buckets existed already
C14_Witness == last.ran /\ last.failed = "daily" /\ redis # EmptyStore

\* every member of every bucket
AllMembers(store) == UNION {DOMAIN store[k] : k \in DOMAIN store}

(* C15: a message becomes a member of a bucket for the first time only in a
   run on that message while it and its channel are eligible; a run on a
   barred message changes no bucket; and no step, of the moderators or of a
   run, removes or changes a score that a barred message has in an existing
   bucket. *)
C15_EligibilityAtWriteTime ==
    /\ [][\A m \in MessageIds :
            (m \in AllMembers(redis') /\ m \notin AllMembers(redis)) =>
                /\ attempts' # attempts
                /\ last'.delivery.i.MessageId = m
                /\ ~last'.lookupFailed
                /\ ~Barred(m)']_vars
    /\ [][\A m \in MessageIds :
            (/\ attempts' # attempts /\ ~last'.lookupFailed
             /\ last'.delivery.i.MessageId = m /\ Barred(m)') => redis' = redis]_vars
    /\ [][\A m \in MessageIds : \A k \in DOMAIN redis :
            (Barred(m)' /\ m \in Members(redis, k)) =>
                /\ m \in Members(redis', k)
                /\ ScoreOf(redis', k, m) = ScoreOf(redis, k, m)]_vars

\* an interaction on a flagged message was handled and its score was kept
C15_Witness ==
    /\ last.ran /\ ~last.lookupFailed /\ ~last.err
    /\ <<"messageTroll", LastMessage>> \in flags
    /\ ScoreOf(redis, DailyKeyOf(LastMessage), LastMessage) = 420
    /\ ScoreOf(redis, RollingKeyOf(LastMessage), LastMessage) = 2 * 420

\* run r failed in its rolling step, after the daily increment
FailedRollingStep(r) == r.ran /\ r.err /\ r.failed \in {"union", "rolling"}

(* C16: a run whose rolling step fails returns the error with the daily
   increment applied, and a first delivery is requeued; when the retry that
   follows succeeds, the daily score has moved by twice the interaction's
   signed count. *)
C16_NoRollback ==
    /\ FailedRollingStep(last) =>
        /\ ScoreOf(redis, DailyKeyOf(LastMessage), LastMessage)
                = ScoreOf(last.pre, DailyKeyOf(LastMessage), LastMessage) + LastDelta * 420
        /\ ~last.delivery.Redelivered =>
                [last.delivery EXCEPT !.Redelivered = TRUE] \in queue
    /\ (/\ last.ran /\ ~last.err /\ last.delivery.Redelivered
        /\ FailedRollingStep(prev) /\ prev.delivery.i = last.delivery.i) =>
            ScoreOf(redis, DailyKeyOf(LastMessage), LastMessage)
                = ScoreOf(prev.pre, DailyKeyOf(LastMessage), LastMessage) + 2 * LastDelta * 420

\* the union failed on the first delivery and the retry went through
C16_Witness ==
    /\ last.ran /\ ~last.err /\ last.delivery.Redelivered
    /\ prev.ran /\ prev.failed = "union" /\ prev.delivery.i = last.delivery.i
    /\ ScoreOf(redis, DailyKeyOf(LastMessage), LastMessage) = 2 * LastDelta * 420

(* C18: a run changes no key but the daily key of the message's day and the
   message's rolling key, and in the daily key no score but the message's. *)
C18_Frame ==
    last.ran =>
        /\ \A k \in DOMAIN last.pre \cup DOMAIN redis :
            k \notin {DailyKeyOf(LastMessage), RollingKeyOf(LastMessage)} =>
                /\ k \in DOMAIN last.pre /\ k \in DOMAIN redis
                /\ redis[k] = last.pre[k]
        /\ \A member \in Members(last.pre, DailyKeyOf(LastMessage))
                            \cup Members(redis, DailyKeyOf(LastMessage)) :
            member # LastMessage =>
                /\ member \in Members(last.pre, DailyKeyOf(LastMessage))
                /\ ScoreOf(redis, DailyKeyOf(LastMessage), member)
                        = ScoreOf(last.pre, DailyKeyOf(LastMessage), member)

\* the union read a daily bucket of an earlier day, which was left alone
C18_Witness ==
    /\ LastMaterialized /\ ~last.err
    /\ \E i \in 1..7 :
        Exists(last.pre, DailyKeyOfDay(LastChannel, CreatedAtOf(LastMessage).day - i))

----------------------------------------------------------------------------
(* Two workers on one store: each store call is one step *)

seqVars == <<now, flags, queue, published, last, prev, attempts, probe>>

Delta(kind) == IF kind = "saved" THEN 1 ELSE -1

\* the record of a worker at position pc of the handler
At(pc, kind, m, unioned, err) ==
    [pc |-> pc, kind |-> kind, m |-> m, unioned |-> unioned, err |-> err]

\* an interaction handled before the workers start, while the store is empty
Seed ==
    /\ \A w \in Workers : workers[w] = Idle
    /\ redis = EmptyStore
    /\ \E kind \in {"saved", "deleted"}, m \in MessageIds :
        \E res \in {handleInteraction(Delta(kind), [Id |-> 0, MessageId |-> m], "none")} :
            /\ redis' = res.redis
            /\ base' = res.redis
            /\ applied' = [applied EXCEPT ![m] = @ + (IF res.calls # <<>> THEN Delta(kind) ELSE 0)]
    /\ UNCHANGED <<seqVars, workers>>

\* worker w takes an interaction: the lookups, the eligibility filter and
\* the age check; a skipped interaction is done at once
Start(w) ==
    /\ workers[w] = Idle
    /\ \E kind \in {"saved", "deleted"}, m \in MessageIds :
        \E cm \in {MessageRow(m)} : \E c \in {ChannelRow(cm.InitialChannelId)} :
            workers' = [workers EXCEPT ![w] =
                IF notEligibleForPopularPost(c, cm) \/ createdMoreThan7DaysAgo(cm.CreatedAt)
                THEN At("done", kind, m, FALSE, FALSE)
                ELSE At("daily", kind, m, FALSE, FALSE)]
    /\ UNCHANGED <<seqVars, redis, applied, base>>

\* saveToDailyBucket
DailyStep(w) ==
    /\ workers[w].pc = "daily"
    /\ \E fail \in {"none", "daily"} :
        \E cm \in {MessageRow(workers[w].m)} : \E c \in {ChannelRow(cm.InitialChannelId)} :
        \E res \in {saveToDailyBucket(Outcome(FALSE, redis, <<>>), c, cm,
                                      [Id |-> 0, MessageId |-> cm.Id],
                                      Delta(workers[w].kind), fail)} :
            /\ redis' = res.redis
            /\ applied' = [applied EXCEPT ![cm.Id] =
                                @ + (IF res.err THEN 0 ELSE Delta(workers[w].kind))]
            /\ workers' = [workers EXCEPT ![w] =
                    [@ EXCEPT !.pc = IF res.err THEN "done" ELSE "exists", !.err = res.err]]
    /\ UNCHANGED <<seqVars, base>>

\* exists := f.redis.Exists(key)
ExistsStep(w) ==
    /\ workers[w].pc = "exists"
    /\ \E cm \in {MessageRow(workers[w].m)} : \E c \in {ChannelRow(cm.InitialChannelId)} :
        \E key \in {GetSevenDayKey(c, cm)} :
            workers' = [workers EXCEPT ![w] =
                [@ EXCEPT !.pc = IF ~Exists(redis, key) THEN "union" ELSE "incr"]]
    /\ UNCHANGED <<seqVars, redis, applied, base>>

\* createSevenDayCombinedBucket
UnionStep(w) ==
    /\ workers[w].pc = "union"
    /\ \E fail \in {"none", "union"} :
        \E cm \in {MessageRow(workers[w].m)} : \E c \in {ChannelRow(cm.InitialChannelId)} :
        \E key \in {GetSevenDayKey(c, cm)} :
        \E res \in {createSevenDayCombinedBucket(Outcome(FALSE, redis, <<>>), c, cm, key,
                                                 getStartOfDay(cm.CreatedAt), fail)} :
            /\ redis' = res.redis
            /\ workers' = [workers EXCEPT ![w] =
                    [@ EXCEPT !.pc = IF res.err THEN "done" ELSE "incr",
                              !.unioned = ~res.err, !.err = res.err]]
    /\ UNCHANGED <<seqVars, applied, base>>

\* the increment of the rolling key that ends saveToSevenDayBucket
IncrStep(w) ==
    /\ workers[w].pc = "incr"
    /\ \E fail \in {"none", "rolling"} :
        \E cm \in {MessageRow(workers[w].m)} : \E c \in {ChannelRow(cm.InitialChannelId)} :
        \E key \in {GetSevenDayKey(c, cm)} :
        \E res \in {RedisSortedSetIncrBy(Outcome(FALSE, redis, <<>>), key,
                                         Delta(workers[w].kind), cm.Id, fail = "rolling")} :
            /\ redis' = res.redis
            /\ workers' = [workers EXCEPT ![w] = [@ EXCEPT !.pc = "done", !.err = res.err]]
    /\ UNCHANGED <<seqVars, applied, base>>

RaceNext ==
    \/ Seed
    \/ \E w \in Workers :
        Start(w) \/ DailyStep(w) \/ ExistsStep(w) \/ UnionStep(w) \/ IncrStep(w)

SpecRace == Init /\ [][RaceNext]_vars

\* the store after one interaction on an eligible, fresh message is handled
\* alone and with no failure
Handled(store, kind, m) ==
    With(MessageRow(m), LAMBDA cm :
    With(ChannelRow(cm.InitialChannelId), LAMBDA c :
    With(saveToDailyBucket(Outcome(FALSE, store, <<>>), c, cm, [Id |-> 0, MessageId |-> m],
                           Delta(kind), "none"), LAMBDA daily :
        saveToSevenDayBucket(daily, c, cm, [Id |-> 0, MessageId |-> m],
                             Delta(kind), "none").redis)))

\* both workers found the same rolling key absent, both took the union, and
\* both have returned nil
RacedOnUnion ==
    /\ \A w \in Workers :
        workers[w].pc = "done" /\ ~workers[w].err /\ workers[w].unioned
    /\ RollingKeyOf(workers["w1"].m) = RollingKeyOf(workers["w2"].m)

\* the stores that handling the two interactions one after the other leaves
OneAfterTheOther ==
    {Handled(Handled(base, workers[a].kind, workers[a].m), workers[b].kind, workers[b].m) :
        <<a, b>> \in {<<"w1", "w2">>, <<"w2", "w1">>}}

(* C12: when two workers both find the rolling key absent and both take the
   union, the store ends as it would had the two interactions been handled
   one after the other. *)
C12_RaceIsBenign == RacedOnUnion => redis \in OneAfterTheOther

\* C12, as far as it holds: after such a race every key but the rolling key
\* is as one-after-the-other handling leaves it
C12_RaceKeepsDailyBuckets ==
    RacedOnUnion =>
        \A seq \in OneAfterTheOther :
            \A k \in DOMAIN seq \cup DOMAIN redis :
                k # RollingKeyOf(workers["w1"].m) =>
                    k \in DOMAIN seq /\ k \in DOMAIN redis /\ redis[k] = seq[k]

\* two saved interactions on two messages of one day raced
C12_Witness ==
    /\ RacedOnUnion
    /\ workers["w1"].m # workers["w2"].m
    /\ workers["w1"].kind = "saved" /\ workers["w2"].kind = "saved"

(* C17: whatever the interleaving of the workers, a message's score in the
   daily bucket of its creation day is the number of saved minus the number
   of deleted interactions on it whose daily increment went through; it may
   be negative. *)
C17_DailyScoreIsNetCount ==
    \A m \in MessageIds :
        ScoreOf(redis, DailyKeyOf(m), m) = Score(applied[m])

\* two deleted interactions on one message, handled at the same time with
\* nothing saved before
C17_Witness ==
    /\ \A w \in Workers :
        workers[w].pc # "idle" /\ workers[w].pc # "daily" /\ workers[w].pc # "done"
    /\ workers["w1"].m = workers["w2"].m
    /\ applied[workers["w1"].m] = -2
    /\ ScoreOf(redis, DailyKeyOf(workers["w1"].m), workers["w1"].m) = Score(-2)

----------------------------------------------------------------------------
(* The key helpers called on their own *)

\* offsets from UTC of the locations a time.Time is carried in
Locations == {0, 3 * Hour, -5 * Hour}

\* timestamps handed to GetDailyKey: two days running, at midnight and late in
\* the day, in each location; and the zero time
ProbeTimes ==
    {Time(day, sod, loc) :
        day \in {FirstDay - 1, FirstDay},
        sod \in {0, 22 * Hour, 24 * Hour - Second},
        loc \in Locations}
        \cup {ZeroTime}

\* GetDailyKey is called twice for one channel
ProbeDailyKey ==
    /\ \E id \in ChannelIds, t1 \in ProbeTimes, t2 \in ProbeTimes :
        \E c \in {ChannelRow(id)} :
            probe' = [called |-> "GetDailyKey", c |-> id, t1 |-> t1, t2 |-> t2,
                      k1 |-> GetDailyKey(c, t1), k2 |-> GetDailyKey(c, t2)]
    /\ UNCHANGED <<now, flags, redis, queue, published, last, prev, attempts,
                   workers, applied, base>>

\* GetSevenDayKey is called for two messages of the database, each with its
\* channel
ProbeSevenDayKey ==
    /\ \E m1 \in MessageIds, m2 \in MessageIds :
        probe' = [called |-> "GetSevenDayKey", m1 |-> m1, m2 |-> m2,
                  k1 |-> GetSevenDayKey(ChannelRow(InitialChannelIdOf(m1)), MessageRow(m1)),
                  k2 |-> GetSevenDayKey(ChannelRow(InitialChannelIdOf(m2)), MessageRow(m2))]
    /\ UNCHANGED <<now, flags, redis, queue, published, last, prev, attempts,
                   workers, applied, base>>

KeysNext == ProbeDailyKey \/ ProbeSevenDayKey \/ Tick

SpecKeys == Init /\ [][KeysNext]_vars

\* GetDailyKey was called on two timestamps that were set
Probed == probe.called = "GetDailyKey" /\ ~IsZero(probe.t1) /\ ~IsZero(probe.t2)

\* the calendar day of t on the clocks of t's location
LocalDay(t) == (Unix(t) + t.loc) \div (24 * Hour)

(* C10: for one channel, two timestamps of the same UTC calendar day yield
   the same daily key and two timestamps of different UTC calendar days yield
   different daily keys. *)
C10_DailyKeyByUTCDay ==
    Probed => (probe.k1 = probe.k2 <=> probe.t1.day = probe.t2.day)

\* C10, as the code has it: the day is the calendar day in the location the
\* timestamp is carried in, and the key names the instant that day starts
C10_DailyKeyByLocalDay ==
    Probed =>
        /\ probe.k1 = DailyKeyAt(probe.c, LocalDay(probe.t1) * (24 * Hour) - probe.t1.loc)
        /\ (probe.t1.loc = 0 /\ probe.t2.loc = 0) =>
                (probe.k1 = probe.k2 <=> probe.t1.day = probe.t2.day)

\* two timestamps of one UTC day, one of them carried in a location where the
\* next day has begun
C10_Witness ==
    /\ Probed
    /\ probe.t1.day = probe.t2.day
    /\ LocalDay(probe.t1) # LocalDay(probe.t2)

\* GetSevenDayKey was called for two messages of one channel
ProbedRolling ==
    /\ probe.called = "GetSevenDayKey"
    /\ InitialChannelIdOf(probe.m1) = InitialChannelIdOf(probe.m2)

\* the rolling key as documented: the daily key, '-', and the start of the
\* day seven days before the message's day
RollingKeyAsDocumented(m) ==
    DailyKeyOf(m) \o "-" \o ToString((CreatedAtOf(m).day - 7) * 86400)

(* C11: the rolling key of a message is its daily key, then '-', then the
   Unix seconds of 00:00:00 UTC seven days before its creation day; two
   messages of one channel have the same rolling key exactly when they were
   created on the same day. *)
C11_RollingKeyFormat ==
    probe.called = "GetSevenDayKey" =>
        /\ probe.k1 = RollingKeyAsDocumented(probe.m1)
        /\ ProbedRolling =>
                (probe.k1 = probe.k2 <=> CreatedAtOf(probe.m1).day = CreatedAtOf(probe.m2).day)

\* C11, as the code has it: the daily key is formatted with the verb %d, which
\* wraps a string in %!d(string= and ); the rest is as stated
C11_RollingKeyAsFormatted ==
    probe.called = "GetSevenDayKey" =>
        /\ probe.k1 = "%!d(string=" \o DailyKeyOf(probe.m1) \o ")-"
                        \o ToString((CreatedAtOf(probe.m1).day - 7) * 86400)
        /\ ProbedRolling =>
                (probe.k1 = probe.k2 <=> CreatedAtOf(probe.m1).day = CreatedAtOf(probe.m2).day)

\* two messages of one channel, created at different times of the same day
C11_Witness ==
    /\ ProbedRolling
    /\ CreatedAtOf(probe.m1).day = CreatedAtOf(probe.m2).day
    /\ CreatedAtOf(probe.m1).sod # CreatedAtOf(probe.m2).sod
    /\ probe.k1 = probe.k2

====
